---- MODULE Spec2Model ----
(***************************************************************************)
(* The dependency-probe server of src/server.py: six probes, the           *)
(* state-store write each of them makes, the GET handler that runs them,   *)
(* and the single-threaded HTTP server loop that calls the handler.        *)
(*                                                                         *)
(* Time is counted in microseconds (the resolution of datetime.now()); a   *)
(* reported elapsed time is in hundredths of a millisecond, the unit of    *)
(* round(seconds * 1000, 2).                                               *)
(***************************************************************************)
EXTENDS Integers, Sequences, FiniteSets, TLC

VARIABLES
    store,      \* the external parameter store: probe name -> last value written
    recorded,   \* history: what last-write-wins prescribes for the store
    pending,    \* connections waiting in the listen backlog
    handling,   \* history: handler invocations in progress
    cur,        \* the frame of do_GET being executed (pc = "idle": none)
    exec,       \* one probe execution in isolation: inputs, then its result
    runA,       \* a GET / run against a store whose every write fails
    runB        \* the same run against a store whose writes succeed

vars == <<store, recorded, pending, handling, cur, exec, runA, runB>>

\* ------------------------------------------------------------- bounds

MaxPending == 2

\* Durations of set-up steps and store writes, and the delays of a
\* dependency's answer (100 ms and 300 ms), in microseconds.
Durations == {40000, 120003}
Delays == {100000, 300000}
Quick == {1000}

\* ---------------------------------------------------------- constants

\* requests.get(..., timeout=0.2), in microseconds
ExtTimeout == 200000

Outcome == {"returns", "raises"}

Verdicts == {"SUCCESS", "FAILED"}

Paths == {"/", "/healthcheck", "/nope", "/healthcheck/"}

RootProbes_swapped ==
    <<"call_SSM", "call_S3", "call_dynamoDB", "get_metadata",
      "call_extServer", "call_DNS">>

\* The probes do_GET calls for "/", in the order of its six calls.
RootProbes ==
    <<"call_SSM", "call_dynamoDB", "call_S3", "get_metadata",
      "call_extServer", "call_DNS">>

HealthcheckProbes_all == RootProbes

\* The probes do_GET calls for "/healthcheck".
HealthcheckProbes == <<"get_metadata">>

ProbeNames == {RootProbes[i] : i \in 1..Len(RootProbes)}

EmptyStore == [p \in ProbeNames |-> "NONE"]

\* The probes that build a boto3 session and client before their call.
UsesSession == {"call_SSM", "call_dynamoDB", "call_S3"}

\* round(td.total_seconds() * 1000, 2): microseconds to hundredths of a ms.
Round2(us) == (us + 5) \div 10

\* The inputs of one execution of probe p: the outcome of its session
\* set-up (sess), of its client set-up and dependency call (dep), of the
\* state-store write (wr), and how long each step takes.
ProbeInputs(p, S, D) ==
    [sess : IF p \in UsesSession THEN S ELSE {"returns"},
     dep : Outcome,
     wr : Outcome,
     dsess : IF p \in UsesSession THEN D ELSE {0},
     dclient : IF p \in UsesSession THEN D ELSE {0},
     dcall : IF p = "call_extServer" THEN Delays ELSE D,
     dwrite : D]

\* The execution context a probe runs in: the store, the clock, and the
\* log of the state-store writes issued so far.
Context(st) == [store |-> st, now |-> 0, writes |-> <<>>]

Tick(c, d) == [c EXCEPT !.now = c.now + d]

\* ------------------------------------------------------- state recorder

put_parameter_store_propagates(name, value, in, c) ==
    LET c1 == Tick(c, in.dwrite)
        c2 == [c1 EXCEPT !.writes = Append(@, [name |-> name, value |-> value])]
    IN  [raised |-> in.wr = "raises",
         c |-> IF in.wr = "returns" THEN [c2 EXCEPT !.store[name] = value] ELSE c2]

\* put_parameter_store(name, value, region): creates a client and puts the
\* parameter with Overwrite=True; whatever raises is logged and dropped.
put_parameter_store(name, value, in, c) ==
    LET c1 == Tick(c, in.dwrite)
        c2 == [c1 EXCEPT !.writes = Append(@, [name |-> name, value |-> value])]
    IN  [raised |-> FALSE,
         c |-> IF in.wr = "returns" THEN [c2 EXCEPT !.store[name] = value] ELSE c2]

\* --------------------------------------------------------------- probes

\* An exception that leaves the probe: no result is returned.
Escape(c, origin) ==
    [raised |-> TRUE, exc |-> origin, result |-> "NONE", time |-> 0,
     metadata |-> "", traced |-> FALSE, c |-> c]

TryExcept_no_failed_write(name, ok, in, c) ==
    LET t == IF ok THEN put_parameter_store(name, "SUCCESS", in, c)
                   ELSE [raised |-> TRUE, c |-> c]
    IN  IF ~t.raised
        THEN [raised |-> FALSE, result |-> "SUCCESS", c |-> t.c]
        ELSE [raised |-> FALSE, result |-> "FAILED", c |-> t.c]

\* The try/except every probe ends with. ok: the statements of the try
\* block before `result = "SUCCESS"` returned.
\*   try:    ...; result = "SUCCESS"; put_parameter_store(name, result, region)
\*   except: result = "FAILED";  put_parameter_store(name, result, region)
TryExcept(name, ok, in, c) ==
    LET t == IF ok THEN put_parameter_store(name, "SUCCESS", in, c)
                   ELSE [raised |-> TRUE, c |-> c]
    IN  IF ~t.raised
        THEN [raised |-> FALSE, result |-> "SUCCESS", c |-> t.c]
        ELSE LET e == put_parameter_store(name, "FAILED", in, t.c)
             IN  [raised |-> e.raised, result |-> "FAILED", c |-> e.c]

\* end_time = datetime.now(); return result, round(elapsed * 1000, 2)
Returned(g, start_time, metadata, traced) ==
    IF g.raised
    THEN Escape(g.c, "put_parameter_store")
    ELSE [raised |-> FALSE, exc |-> "none", result |-> g.result,
          time |-> Round2(g.c.now - start_time),
          metadata |-> metadata, traced |-> traced, c |-> g.c]

call_S3_end_before_put(in, c) ==
    LET start_time == c.now
        c1 == Tick(c, in.dsess)
    IN  IF in.sess = "raises"
        THEN Escape(c1, "Session")
        ELSE LET c2 == Tick(Tick(c1, in.dclient), in.dcall)
                 g == TryExcept("call_S3", in.dep = "returns", in, c2)
             IN  Returned([g EXCEPT !.c.now = c2.now], start_time, "", FALSE)

\* call_S3(region, bucket): the start timestamp, the session (outside the
\* try), then client, download and state write inside the try.
call_S3(in, c) ==
    LET start_time == c.now
        c1 == Tick(c, in.dsess)
    IN  IF in.sess = "raises"
        THEN Escape(c1, "Session")
        ELSE LET c2 == Tick(Tick(c1, in.dclient), in.dcall)
                 g == TryExcept("call_S3", in.dep = "returns", in, c2)
             IN  Returned(g, start_time, "", FALSE)

call_DNS_unguarded(in, c) ==
    LET start_time == c.now
        c2 == Tick(c, in.dcall)
    IN  IF in.dep = "raises"
        THEN Escape(c2, "dns.resolver.resolve")
        ELSE Returned(TryExcept("call_DNS", TRUE, in, c2), start_time, "", TRUE)

\* call_DNS(region): subsegment, start timestamp, resolve inside the try.
call_DNS(in, c) ==
    LET start_time == c.now
        c2 == Tick(c, in.dcall)
        g == TryExcept("call_DNS", in.dep = "returns", in, c2)
    IN  Returned(g, start_time, "", TRUE)

call_extServer_no_timeout(in, c) ==
    LET start_time == c.now
        c2 == Tick(c, in.dcall)
        g == TryExcept("call_extServer", in.dep = "returns", in, c2)
    IN  Returned(g, start_time, "", TRUE)

\* call_extServer(region): requests.get with timeout=0.2 inside the try; an
\* answer later than the timeout raises when the timeout expires.
call_extServer(in, c) ==
    LET start_time == c.now
        timed_out == in.dcall > ExtTimeout
        c2 == Tick(c, IF timed_out THEN ExtTimeout ELSE in.dcall)
        g == TryExcept("call_extServer", in.dep = "returns" /\ ~timed_out, in, c2)
    IN  Returned(g, start_time, "", TRUE)

\* get_metadata(healthcheck, region): the subsegment is skipped for health
\* checks; the metadata text is the fields read, or the error message.
get_metadata(healthcheck, in, c) ==
    LET start_time == c.now
        c2 == Tick(c, in.dcall)
        ok == in.dep = "returns"
        g == TryExcept("get_metadata", ok, in, c2)
        metadata == IF ok THEN "Metadata: fields" ELSE "Metadata: ERROR"
    IN  Returned(g, start_time, metadata, ~healthcheck)

\* call_SSM(region): the session first (outside the try), then the start
\* timestamp, then client, get_parameter and state write inside the try.
call_SSM(in, c) ==
    LET c1 == Tick(c, in.dsess)
        start_time == c1.now
    IN  IF in.sess = "raises"
        THEN Escape(c1, "Session")
        ELSE LET c2 == Tick(Tick(c1, in.dclient), in.dcall)
                 g == TryExcept("call_SSM", in.dep = "returns", in, c2)
             IN  Returned(g, start_time, "", FALSE)

\* call_dynamoDB(region): the start timestamp, then session, client,
\* get_item and state write, all inside the try.
call_dynamoDB(in, c) ==
    LET start_time == c.now
        c1 == Tick(c, in.dsess)
        c2 == IF in.sess = "raises" THEN c1
              ELSE Tick(Tick(c1, in.dclient), in.dcall)
        ok == in.sess = "returns" /\ in.dep = "returns"
        g == TryExcept("call_dynamoDB", ok, in, c2)
    IN  Returned(g, start_time, "", FALSE)

\* The function a name of do_GET's call list stands for.
Call(name, healthcheck, in, c) ==
    CASE name = "call_SSM" -> call_SSM(in, c)
      [] name = "call_dynamoDB" -> call_dynamoDB(in, c)
      [] name = "call_S3" -> call_S3(in, c)
      [] name = "get_metadata" -> get_metadata(healthcheck, in, c)
      [] name = "call_extServer" -> call_extServer(in, c)
      [] name = "call_DNS" -> call_DNS(in, c)

\* -------------------------------------------------------------- handler

\* The frame of one do_GET call: where it is, the probes it has called (ran),
\* the verdicts they returned (results), the state writes of its latest probe
\* execution (writes), and what it has sent: the status line (0: none yet)
\* and the body.
Idle ==
    [pc |-> "idle", path |-> "", ran |-> <<>>, results |-> <<>>,
     writes |-> <<>>, status |-> 0, body |-> <<>>, exc |-> "none"]

Route_report_by_default(path) ==
    IF path = "/healthcheck" THEN "hc_status" ELSE "probes"

\* The branch of do_GET a path takes.
Route(path) ==
    IF path = "/" THEN "probes"
    ELSE IF path = "/healthcheck" THEN "hc_status"
    ELSE "notfound"

Frame(path) == [Idle EXCEPT !.pc = Route(path), !.path = path]

\* '<span class="w3-text-green">SUCCESS</span>' if test == 'SUCCESS'
\* else '<span class="w3-text-red">FAILED</span>'
Classify(test) ==
    IF test = "SUCCESS" THEN "w3-text-green SUCCESS" ELSE "w3-text-red FAILED"

\* The fields html.format fills from the six test results of this call.
Report(h, st) == [i \in 1..Len(h.results) |-> Classify(h.results[i])]

\* One call of do_GET's call list `calls`, made on store st: the probe
\* runs; an exception leaving it leaves do_GET too.
CallNext(h, calls, after, healthcheck, in, st) ==
    LET name == calls[Len(h.ran) + 1]
        out == Call(name, healthcheck, in, Context(st))
        ran == Append(h.ran, name)
    IN  [out |-> out,
         store |-> out.c.store,
         h |-> IF out.raised
               THEN [h EXCEPT !.pc = "aborted", !.exc = out.exc, !.ran = ran,
                              !.writes = out.c.writes]
               ELSE [h EXCEPT !.ran = ran,
                              !.results = Append(@, out.result),
                              !.writes = out.c.writes,
                              !.body = IF healthcheck
                                       THEN <<"Success, server is HEALTHY", out.metadata>>
                                       ELSE @,
                              !.pc = IF Len(ran) = Len(calls) THEN after ELSE @]]

\* send_response(200), the headers, and the page filled from the results.
SendReport(h, st) ==
    [h EXCEPT !.status = 200, !.body = Report(h, st), !.pc = "done"]

\* What last-write-wins prescribes after an execution of probe `name`.
Prescribed(rec, name, in, out) ==
    IF ~out.raised /\ in.wr = "returns"
    THEN [rec EXCEPT ![name] = out.result]
    ELSE rec

\* --------------------------------------------------------------- server

ServerIdle_threaded == TRUE

\* HTTPServer.serve_forever calls the handler of one request and takes the
\* next request when that call has returned.
ServerIdle == cur.pc = "idle"

NoExec == [phase |-> "none"]
NoRun == [h |-> Idle, store |-> EmptyStore]

InitServer ==
    /\ store = EmptyStore
    /\ recorded = EmptyStore
    /\ pending = 0
    /\ handling = 0
    /\ cur = Idle

Init ==
    /\ InitServer
    /\ exec = NoExec
    /\ runA = NoRun
    /\ runB = NoRun

\* A client connects and sends its request.
Connect ==
    /\ pending < MaxPending
    /\ pending' = pending + 1
    /\ UNCHANGED <<store, recorded, handling, cur, exec, runA, runB>>

\* The server loop takes a waiting request and calls do_GET.
Accept ==
    /\ ServerIdle
    /\ pending > 0
    /\ \E path \in Paths : cur' = Frame(path)
    /\ pending' = pending - 1
    /\ handling' = handling + 1
    /\ UNCHANGED <<store, recorded, exec, runA, runB>>

\* path "/": the next of the six calls. The dependency call and the
\* state-store write of the probe each return or raise; the faults of
\* session set-up are examined on the probe alone (SpecProbe).
RunProbe ==
    /\ cur.pc = "probes"
    /\ \E in \in ProbeInputs(RootProbes[Len(cur.ran) + 1], {"returns"}, Quick) :
         LET r == CallNext(cur, RootProbes, "respond", FALSE, in, store)
         IN  /\ cur' = r.h
             /\ store' = r.store
             /\ recorded' = Prescribed(recorded, RootProbes[Len(cur.ran) + 1], in, r.out)
    /\ UNCHANGED <<pending, handling, exec, runA, runB>>

\* path "/": the response, after the six calls.
Respond ==
    /\ cur.pc = "respond"
    /\ cur' = SendReport(cur, store)
    /\ UNCHANGED <<store, recorded, pending, handling, exec, runA, runB>>

\* path "/healthcheck": send_response(299) and the headers.
HealthStatus ==
    /\ cur.pc = "hc_status"
    /\ cur' = [cur EXCEPT !.status = 299, !.pc = "hc_probe"]
    /\ UNCHANGED <<store, recorded, pending, handling, exec, runA, runB>>

\* path "/healthcheck": get_metadata(True, region) and the body.
HealthProbe ==
    /\ cur.pc = "hc_probe"
    /\ \E in \in ProbeInputs(HealthcheckProbes[Len(cur.ran) + 1], {"returns"}, Quick) :
         LET r == CallNext(cur, HealthcheckProbes, "done", TRUE, in, store)
         IN  /\ cur' = r.h
             /\ store' = r.store
             /\ recorded' = Prescribed(recorded, HealthcheckProbes[Len(cur.ran) + 1], in, r.out)
    /\ UNCHANGED <<pending, handling, exec, runA, runB>>

\* any other path: send_response(404), no body.
NotFound ==
    /\ cur.pc = "notfound"
    /\ cur' = [cur EXCEPT !.status = 404, !.pc = "done"]
    /\ UNCHANGED <<store, recorded, pending, handling, exec, runA, runB>>

\* do_GET returns, or an exception left it: the server loop goes on.
Return ==
    /\ cur.pc \in {"done", "aborted"}
    /\ cur' = Idle
    /\ handling' = handling - 1
    /\ UNCHANGED <<store, recorded, pending, exec, runA, runB>>

Next ==
    \/ Connect
    \/ Accept
    \/ RunProbe
    \/ Respond
    \/ HealthStatus
    \/ HealthProbe
    \/ NotFound
    \/ Return

Spec == Init /\ [][Next]_vars

\* ------------------------------------------ one probe execution alone

\* Every probe, with every outcome and duration of each of its steps.
InitProbe ==
    /\ InitServer
    /\ runA = NoRun
    /\ runB = NoRun
    /\ \E p \in ProbeNames :
         \E in \in ProbeInputs(p, Outcome, Durations) :
           \E hc \in (IF p = "get_metadata" THEN BOOLEAN ELSE {FALSE}) :
             exec = [phase |-> "ready", name |-> p, healthcheck |-> hc, in |-> in]

Execute ==
    /\ exec.phase = "ready"
    /\ exec' = [phase |-> "returned", name |-> exec.name,
                healthcheck |-> exec.healthcheck, in |-> exec.in,
                out |-> Call(exec.name, exec.healthcheck, exec.in, Context(EmptyStore))]
    /\ UNCHANGED <<store, recorded, pending, handling, cur, runA, runB>>

NextProbe == Execute

SpecProbe == InitProbe /\ [][NextProbe]_vars

\* ------------------------- the same GET / against two state stores

StartRun == [h |-> Frame("/"), store |-> EmptyStore]

InitPair ==
    /\ InitServer
    /\ exec = NoExec
    /\ runA = StartRun
    /\ runB = StartRun

\* The next call of both runs, with the same dependency outcome; every
\* write of run A raises, every write of run B returns.
PairProbe ==
    /\ runA.h.pc = "probes"
    /\ runB.h.pc = "probes"
    /\ \E in \in ProbeInputs(RootProbes[Len(runA.h.ran) + 1], {"returns"}, Quick) :
         /\ in.wr = "returns"
         /\ LET a == CallNext(runA.h, RootProbes, "respond", FALSE,
                              [in EXCEPT !.wr = "raises"], runA.store)
                b == CallNext(runB.h, RootProbes, "respond", FALSE, in, runB.store)
            IN  /\ runA' = [h |-> a.h, store |-> a.store]
                /\ runB' = [h |-> b.h, store |-> b.store]
    /\ UNCHANGED <<store, recorded, pending, handling, cur, exec>>

PairRespond ==
    /\ runA.h.pc = "respond"
    /\ runB.h.pc = "respond"
    /\ runA' = [runA EXCEPT !.h = SendReport(runA.h, runA.store)]
    /\ runB' = [runB EXCEPT !.h = SendReport(runB.h, runB.store)]
    /\ UNCHANGED <<store, recorded, pending, handling, cur, exec>>

NextPair == PairProbe \/ PairRespond

SpecPair == InitPair /\ [][NextPair]_vars

\* =============================================================== claims

IsProbing(h) == h.pc = "probes" /\ Len(h.ran) >= 1

AllFailed(h) == \A i \in 1..Len(h.results) : h.results[i] = "FAILED"

StepsReturned(e) ==
    /\ e.in.sess = "returns"
    /\ e.in.dep = "returns"
    /\ ~(e.name = "call_extServer" /\ e.in.dcall > ExtTimeout)

\* C2: every execution of every probe returns exactly one verdict, SUCCESS
\* when its steps return and FAILED when any step raises; no exception
\* leaves the probe.
C2_EveryProbeReturnsVerdict ==
    exec.phase = "returned" =>
        /\ ~exec.out.raised
        /\ exec.out.result \in Verdicts
        /\ exec.out.result = "SUCCESS" <=> StepsReturned(exec)

C6_HealthcheckAlive ==
    cur.path = "/healthcheck" =>
        /\ cur.pc \in {"hc_status", "hc_probe", "done"}
        /\ \A i \in 1..Len(cur.ran) : cur.ran[i] = "get_metadata"
        /\ Len(cur.ran) <= 1
        /\ cur.pc # "hc_status" => cur.status = 299
        /\ cur.pc = "done" =>
               /\ cur.ran = <<"get_metadata">>
               /\ cur.body[1] = "Success, server is HEALTHY"

\* A health check answered 299 while the store shows the other five probes
\* FAILED.
C6_Witness ==
    /\ cur.path = "/healthcheck"
    /\ cur.pc = "done"
    /\ cur.status = 299
    /\ \A p \in ProbeNames \ {"get_metadata"} : store[p] = "FAILED"

\* The time of the dependency call of an execution.
CallTime(e) ==
    IF e.name = "call_extServer" /\ e.in.dcall > ExtTimeout
    THEN ExtTimeout
    ELSE e.in.dcall

\* C7 (as claimed): the elapsed time a probe reports is the time of its
\* dependency call alone, without set-up and without the state-store write.
C7_ElapsedIsCallOnly ==
    (exec.phase = "returned" /\ ~exec.out.raised /\ StepsReturned(exec)) =>
        exec.out.time = Round2(CallTime(exec))

\* The time between the start timestamp and the end timestamp of an
\* execution: the state-store write always, client set-up in the three
\* session probes, session set-up in call_S3 and call_dynamoDB.
Window(e) ==
    LET n == e.name
        i == e.in
    IN  IF n = "call_dynamoDB" /\ i.sess = "raises"
        THEN i.dsess + i.dwrite
        ELSE (IF n \in {"call_S3", "call_dynamoDB"} THEN i.dsess ELSE 0)
             + (IF n \in UsesSession THEN i.dclient ELSE 0)
             + CallTime(e) + i.dwrite

\* C7 (amended): the elapsed time a probe reports runs from its start
\* timestamp to an end timestamp taken after the state-store write.
C7_ElapsedIncludesWrite ==
    (exec.phase = "returned" /\ ~exec.out.raised) =>
        /\ exec.out.time = Round2(Window(exec))
        /\ exec.out.time > Round2(Window(exec) - exec.in.dwrite)

\* An object-store execution that succeeded with a slow state-store write.
C7_Witness ==
    /\ exec.phase = "returned"
    /\ exec.name = "call_S3"
    /\ exec.out.result = "SUCCESS"
    /\ exec.in.dwrite = 120003
    /\ exec.out.time > Round2(exec.in.dcall)

\* C8 (as claimed): the external host answers after 300 ms, the probe reports
\* FAILED and an elapsed time bounded by the 200 ms timeout.
C8_BoundedByTimeout ==
    (exec.phase = "returned" /\ exec.name = "call_extServer"
        /\ exec.in.dcall = 300000) =>
        /\ exec.out.result = "FAILED"
        /\ exec.out.time <= Round2(ExtTimeout)

\* C8 (amended): the probe reports FAILED and the elapsed time is the 200 ms
\* timeout plus the time of the state-store write, whatever the delay.
C8_TimeoutPlusWrite ==
    (exec.phase = "returned" /\ exec.name = "call_extServer"
        /\ exec.in.dcall > ExtTimeout) =>
        /\ exec.out.result = "FAILED"
        /\ exec.out.time = Round2(ExtTimeout + exec.in.dwrite)
        /\ exec.out.time < Round2(exec.in.dcall + exec.in.dwrite)

\* The answer comes after 300 ms and the probe has returned FAILED.
C8_Witness ==
    /\ exec.phase = "returned"
    /\ exec.name = "call_extServer"
    /\ exec.in.dep = "returns"
    /\ exec.in.dcall = 300000
    /\ exec.out.result = "FAILED"

\* C9 (as claimed): while the probes of one request are in flight, a second
\* request that is waiting can start; the report of a request is made of the
\* verdicts of its own probe executions.
C9_SecondCanStart ==
    /\ (IsProbing(cur) /\ pending > 0) => ENABLED Accept
    /\ (cur.path = "/" /\ cur.pc = "done") =>
           cur.body = [i \in 1..6 |-> Classify(cur.results[i])]

\* C9 (amended): requests are handled one at a time, a waiting request starts
\* only when the handler has returned; the report of a request is made of
\* the verdicts of its own probe executions.
C9_OneAtATime ==
    /\ handling <= 1
    /\ handling = 1 <=> cur.pc # "idle"
    /\ (cur.pc # "idle" /\ pending > 0) => ~ENABLED Accept
    /\ (cur.path = "/" /\ cur.pc = "done") =>
           cur.body = [i \in 1..6 |-> Classify(cur.results[i])]

\* A request waits while the probes of another are in flight.
C9_Witness ==
    /\ IsProbing(cur)
    /\ cur.path = "/"
    /\ pending > 0
    /\ handling = 1

IsUnknownPath(h) == h.pc # "idle" /\ h.path \notin {"/", "/healthcheck"}

\* C10: a GET for any other path is answered 404 with an empty body; no
\* probe is called, no state-store write is issued, and no step taken while
\* it is handled changes the store.
C10_NotFound ==
    /\ [](IsUnknownPath(cur) =>
            /\ cur.ran = <<>>
            /\ cur.writes = <<>>
            /\ cur.body = <<>>
            /\ cur.pc \in {"notfound", "done"}
            /\ cur.pc = "done" => cur.status = 404)
    /\ [][IsUnknownPath(cur) => store' = store]_vars

\* A 404 answered by a server whose store earlier requests have written.
C10_Witness ==
    /\ IsUnknownPath(cur)
    /\ cur.pc = "done"
    /\ cur.status = 404
    /\ store["call_S3"] = "FAILED"

====
